---- MODULE Spec2Model ----
(***************************************************************************)
(* Permission resolution and channel ordering of discord/abc.py            *)
(* (GuildChannel._fill_overwrites, permissions_for, move, _move, _edit and *)
(* set_permissions).                                                       *)
(*                                                                         *)
(* A permission bitmask is modelled as the set of the names of its set     *)
(* bits: | is \cup, & ~x is \ x, and a named flag is membership.           *)
(***************************************************************************)
EXTENDS Integers, Sequences, FiniteSets, TLC

VARIABLES
    pc,          \* which operation ran last
    default,     \* guild.default_role.permissions
    bit,         \* the permission bit the wire overwrites of this run talk about
    data,        \* data['permission_overwrites'] handed to _fill_overwrites
    overwrites,  \* GuildChannel._overwrites
    member,      \* the member permissions_for was called with (NoMember before)
    result,      \* the Permissions that permissions_for returned
    channels,    \* guild.channels, in iteration order
    self,        \* id of the channel move is called on
    request,     \* the arguments of the last move, _edit or set_permissions call
    raised,      \* the exception the last call ended with ("none" when it returned)
    http,        \* the transport calls the last call issued, in order
    entry,       \* guild.channels as they were when the last call began
    response     \* the channel data edit_channel returned (NoResponse when none)

permVars == <<default, bit, data, overwrites, member, result>>

moveVars == <<channels, self, request, raised, http, entry, response>>

vars == <<pc, default, bit, data, overwrites, member, result,
          channels, self, request, raised, http, entry, response>>

----------------------------------------------------------------------------
(* Bounds *)

\* longest wire overwrite list handed to _fill_overwrites
MaxOverwrites == 2

\* most channels of the guild besides the moved one
MaxOthers == 2

----------------------------------------------------------------------------
(* _Overwrites *)

ROLE == 0
MEMBER == 1

is_role(o) == o.type = ROLE

is_member(o) == o.type = MEMBER

\* _Overwrites.__init__: one parsed record of the wire list
ParseOverwrite(d) == [id |-> d.id, allow |-> d.allow, deny |-> d.deny, type |-> d.type]

----------------------------------------------------------------------------
(* Permissions (discord/permissions.py) *)

GuildOnlyBits == {"administrator", "kick_members"}

\* the flags permissions_for clears when send_messages is missing
SendDependentBits ==
    {"send_tts_messages", "send_voice_messages", "mention_everyone", "embed_links",
     "attach_files", "create_public_threads", "create_private_threads",
     "use_application_commands"}

ChannelBits == {"read_messages", "send_messages", "manage_channels"} \cup SendDependentBits

\* Permissions.all()
PermissionsAll == GuildOnlyBits \cup ChannelBits

\* Permissions.all_channel()
PermissionsAllChannel == ChannelBits

\* Permissions.handle_overwrite: clear the denied bits, then set the allowed
handle_overwrite(base, allow, deny) == (base \ deny) \cup allow

----------------------------------------------------------------------------
(* The guild *)

\* guild.id, which is also the id of the @everyone role
GuildId == 1

\* guild.owner_id
OwnerId == 10

\* guild._roles without @everyone: role id -> role._permissions
GuildRoles ==
    (2 :> {"manage_channels"}) @@ (3 :> {"administrator"}) @@ (4 :> {"kick_members"})

\* the members permissions_for is asked about: the owner, a member with two
\* roles and a stale role id, and a member holding the administrator role
Members ==
    { [id |-> OwnerId, roles |-> {2}],
      [id |-> 11, roles |-> {2, 4, 99}],
      [id |-> 12, roles |-> {2, 3}] }

NoMember == [id |-> 0, roles |-> {}]

\* guild.default_role.permissions.value
DefaultChoices ==
    { {}, {"read_messages"}, {"send_messages"}, {"read_messages", "send_messages"},
      {"read_messages", "send_messages", "embed_links", "administrator"} }

\* the bits the overwrites of one run allow or deny
TestBits ==
    {"administrator", "kick_members", "read_messages", "send_messages", "manage_channels"}
        \cup SendDependentBits

\* (id, type) of the wire records: @everyone, two roles, two members, and a
\* member-kind record that carries the guild id
WireTargets ==
    { <<GuildId, ROLE>>, <<2, ROLE>>, <<4, ROLE>>, <<11, MEMBER>>, <<OwnerId, MEMBER>>,
      <<GuildId, MEMBER>> }

WireRecords(b) ==
    { [id |-> t[1], type |-> t[2], allow |-> a, deny |-> d] :
        t \in WireTargets, a \in {{}, {b}}, d \in {{}, {b}} }

\* the sequences over S without a repeated element, of length at most n
RECURSIVE UniqueSeqs(_, _)
UniqueSeqs(S, n) ==
    IF n = 0 THEN {<<>>}
    ELSE LET shorter == UniqueSeqs(S, n - 1)
         IN shorter \cup
            { Append(s, x) : s \in {t \in shorter : Len(t) = n - 1},
                             x \in S }

\* wire lists: at most one record per (id, type), as the service sends them
WireLists(b) ==
    { s \in UniqueSeqs(WireRecords(b), MaxOverwrites) :
        \A i, j \in 1..Len(s) : i # j => <<s[i].id, s[i].type>> # <<s[j].id, s[j].type>> }

----------------------------------------------------------------------------
(* GuildChannel._fill_overwrites *)

\* mutant: the kind of the record is not looked at
RECURSIVE EveryoneIndex_anyKind(_, _)
EveryoneIndex_anyKind(d, n) ==
    IF n = 0 THEN 0
    ELSE IF ParseOverwrite(d[n]).id = GuildId THEN n - 1
    ELSE EveryoneIndex_anyKind(d, n - 1)

\* the index (from 0) the loop leaves in everyone_index: the last role-kind
\* record whose id is the guild id, 0 when there is none
RECURSIVE EveryoneIndex(_, _)
EveryoneIndex(d, n) ==
    IF n = 0 THEN 0
    ELSE IF d[n].type # MEMBER /\ ParseOverwrite(d[n]).id = GuildId THEN n - 1
    ELSE EveryoneIndex(d, n - 1)

\* tmp[everyone_index], tmp[0] = tmp[0], tmp[everyone_index]
Swap(s, i, j) == [k \in 1..Len(s) |-> IF k = i THEN s[j] ELSE IF k = j THEN s[i] ELSE s[k]]

\* mutant: the parsed list is left in wire order
fill_overwrites_noSwap(d) == [k \in 1..Len(d) |-> ParseOverwrite(d[k])]

fill_overwrites(d) ==
    LET parsed == [k \in 1..Len(d) |-> ParseOverwrite(d[k])]
        everyone_index == EveryoneIndex(d, Len(d))
    IN IF parsed # <<>> THEN Swap(parsed, everyone_index + 1, 1) ELSE parsed

----------------------------------------------------------------------------
(* GuildChannel.permissions_for *)

\* lines 576-585: the default role's value OR-ed with every held role found
GuildBase(dflt, m) ==
    dflt \cup UNION { GuildRoles[r] : r \in {q \in m.roles : q \in DOMAIN GuildRoles} }

\* lines 593-601: whether index 0 is taken as the @everyone overwrite
EveryoneFirst(ow) == Len(ow) > 0 /\ ow[1].id = GuildId

remaining_overwrites(ow) == IF EveryoneFirst(ow) THEN Tail(ow) ELSE ow

\* mutant: each role overwrite of a held role is applied on its own, in list
\* order
RECURSIVE ApplyRoleOverwrites_oneByOne(_, _, _)
ApplyRoleOverwrites_oneByOne(base, rem, m) ==
    IF rem = <<>> THEN base
    ELSE LET o == rem[1]
         IN ApplyRoleOverwrites_oneByOne(
                IF is_role(o) /\ o.id \in m.roles
                THEN handle_overwrite(base, o.allow, o.deny)
                ELSE base,
                Tail(rem), m)

\* lines 603-612: the role overwrites of the held roles, OR-ed, applied once
ApplyRoleOverwrites(base, rem, m) ==
    LET hit == {i \in 1..Len(rem) : is_role(rem[i]) /\ rem[i].id \in m.roles}
        denies == UNION {rem[i].deny : i \in hit}
        allows == UNION {rem[i].allow : i \in hit}
    IN handle_overwrite(base, allows, denies)

\* mutant: the first member-kind overwrite is applied, whoever it names
ApplyMemberOverwrite_anyMember(base, rem, m) ==
    LET hit == {i \in 1..Len(rem) : is_member(rem[i])}
    IN IF hit = {} THEN base
       ELSE LET i == CHOOSE k \in hit : \A l \in hit : k <= l
            IN handle_overwrite(base, rem[i].allow, rem[i].deny)

\* lines 614-618: the first member overwrite of this member, then break
ApplyMemberOverwrite(base, rem, m) ==
    LET hit == {i \in 1..Len(rem) : is_member(rem[i]) /\ rem[i].id = m.id}
    IN IF hit = {} THEN base
       ELSE LET i == CHOOSE k \in hit : \A l \in hit : k <= l
            IN handle_overwrite(base, rem[i].allow, rem[i].deny)

\* mutant: the member overwrite is applied before the role overwrites
BaseAfterOverwrites_memberFirst(ow, dflt, m) ==
    LET base0 == GuildBase(dflt, m)
        base1 == IF EveryoneFirst(ow)
                 THEN handle_overwrite(base0, ow[1].allow, ow[1].deny)
                 ELSE base0
        rem == remaining_overwrites(ow)
    IN ApplyRoleOverwrites(ApplyMemberOverwrite(base1, rem, m), rem, m)

\* lines 592-618: base after the @everyone, role and member overwrites
BaseAfterOverwrites(ow, dflt, m) ==
    LET base0 == GuildBase(dflt, m)
        base1 == IF EveryoneFirst(ow)
                 THEN handle_overwrite(base0, ow[1].allow, ow[1].deny)
                 ELSE base0
        rem == remaining_overwrites(ow)
    IN ApplyMemberOverwrite(ApplyRoleOverwrites(base1, rem, m), rem, m)

\* mutant: an unreadable channel keeps its channel-scoped bits
ClearDependent_keepUnreadable(base) ==
    IF "send_messages" \notin base THEN base \ SendDependentBits ELSE base

\* mutant: one of the flags that depend on send_messages is not cleared
ClearDependent_forgetsOne(base) ==
    LET b1 == IF "send_messages" \notin base
              THEN base \ (SendDependentBits \ {"use_application_commands"})
              ELSE base
    IN IF "read_messages" \notin b1 THEN b1 \ PermissionsAllChannel ELSE b1

\* lines 620-630: without send_messages, the flags that depend on it go
ClearSendDependent(base) ==
    IF "send_messages" \notin base THEN base \ SendDependentBits ELSE base

\* lines 632-635: without read_messages, every channel-scoped flag goes
ClearUnreadable(base) ==
    IF "read_messages" \notin base THEN base \ PermissionsAllChannel ELSE base

\* lines 620-636: the two dependent clearings
ClearDependent(base) == ClearUnreadable(ClearSendDependent(base))

\* mutant: the owner is resolved like any other member
permissions_for_ownerNotSpecial(ow, dflt, m) ==
    IF "administrator" \in GuildBase(dflt, m) THEN PermissionsAll
    ELSE ClearDependent(BaseAfterOverwrites(ow, dflt, m))

\* mutant: a guild-wide administrator still goes through the overwrites
permissions_for_adminNotSpecial(ow, dflt, m) ==
    IF OwnerId = m.id THEN PermissionsAll
    ELSE ClearDependent(BaseAfterOverwrites(ow, dflt, m))

permissions_for(ow, dflt, m) ==
    IF OwnerId = m.id THEN PermissionsAll
    ELSE IF "administrator" \in GuildBase(dflt, m) THEN PermissionsAll
    ELSE ClearDependent(BaseAfterOverwrites(ow, dflt, m))

----------------------------------------------------------------------------
(* The state machine of one channel's overwrites *)

\* utils.MISSING, the "argument not given" sentinel; None and False are 0 and
\* True is 1, as Python's bool() and == see them
MISSING == -1

None == 0

NoRequest ==
    [beginning |-> 0, end |-> 0, before |-> MISSING, after |-> MISSING, offset |-> 0,
     category |-> MISSING, sync_permissions |-> 0]

NoResponse == [position |-> MISSING, parent_id |-> MISSING]

InitPerm ==
    /\ pc = "data"
    /\ default \in DefaultChoices
    /\ bit \in TestBits
    /\ data \in WireLists(bit)
    /\ overwrites = <<>>
    /\ member = NoMember
    /\ result = {}
    /\ channels = <<>>
    /\ self = None
    /\ request = NoRequest
    /\ raised = "none"
    /\ http = <<>>
    /\ entry = <<>>
    /\ response = NoResponse

\* the channel is built from its payload
FillOverwrites ==
    /\ pc = "data"
    /\ overwrites' = fill_overwrites(data)
    /\ pc' = "filled"
    /\ UNCHANGED <<default, bit, data, member, result>>
    /\ UNCHANGED moveVars

\* channel.permissions_for(m)
PermissionsFor ==
    /\ pc \in {"filled", "resolved"}
    /\ \E m \in Members :
          /\ member' = m
          /\ result' = permissions_for(overwrites, default, m)
    /\ pc' = "resolved"
    /\ UNCHANGED <<default, bit, data, overwrites>>
    /\ UNCHANGED moveVars

NextPerm == FillOverwrites \/ PermissionsFor

SpecPerm == InitPerm /\ [][NextPerm]_vars

\* longer wire lists, for _fill_overwrites alone: it reads id and type of a
\* record and never allow or deny, so every record denies read_messages
FillLists ==
    { s \in UniqueSeqs({ [id |-> t[1], type |-> t[2], allow |-> {},
                          deny |-> {"read_messages"}] : t \in WireTargets },
                       MaxOverwrites + 1) : TRUE }

InitFill ==
    /\ pc = "data"
    /\ default = {"read_messages", "send_messages"}
    /\ bit = "read_messages"
    /\ data \in FillLists
    /\ overwrites = <<>>
    /\ member = NoMember
    /\ result = {}
    /\ channels = <<>>
    /\ self = None
    /\ request = NoRequest
    /\ raised = "none"
    /\ http = <<>>
    /\ entry = <<>>
    /\ response = NoResponse

SpecFill == InitFill /\ [][NextPerm]_vars

----------------------------------------------------------------------------
(* The guild's channels *)

\* the channel move is called on, and the other channels of the guild
SelfId == 22

OtherId(k) == IF k = 2 THEN 20 ELSE 20 + k

OtherIds == { OtherId(k) : k \in 1..MaxOthers }

\* the category channel a channel can sit under or be moved to
CategoryId == 30

\* channel.position values: ties and gaps both occur
Positions == {0, 1, 2}

\* GuildChannel._sorting_bucket of the concrete channel classes
Buckets == {"text", "voice", "category"}

SelfChoices ==
    { [id |-> SelfId, position |-> p, category_id |-> c, bucket |-> "text"] :
        p \in Positions, c \in {None, CategoryId} }

\* a channel of another bucket is left out of every listing whatever its
\* position: one such channel per slot
OtherChoices(k) ==
    { [id |-> OtherId(k), position |-> p, category_id |-> c, bucket |-> "text"] :
        p \in Positions, c \in {None, CategoryId} }
    \cup { [id |-> OtherId(k), position |-> 0, category_id |-> None, bucket |-> b] :
             b \in Buckets \ {"text", "category"} }

\* guild.channels: the moved channel and the first n others
RECURSIVE OtherLists(_)
OtherLists(n) ==
    IF n = 0 THEN {<<>>}
    ELSE { Append(s, c) : s \in OtherLists(n - 1), c \in OtherChoices(n) }

GuildChannelLists ==
    UNION { { <<me>> \o s : me \in SelfChoices, s \in OtherLists(n) } : n \in 0..MaxOthers }

\* the keyword arguments move is called with: the flags are bools, before and
\* after are channels (by id) or left out, category is a category, None or left
\* out
\* offset values: back, none, and forward past the end of a short list
Offsets == {-1, 0, 2}

\* a call that names more than one of the four ends at line 940, before
\* offset and category are read: those are enumerated with the defaults only
Requests ==
    { r \in
        { [beginning |-> b, end |-> e, before |-> bf, after |-> af, offset |-> o,
           category |-> cs[1], sync_permissions |-> cs[2]] :
            b \in {0, 1}, e \in {0, 1},
            bf \in {MISSING} \cup OtherIds, af \in {MISSING} \cup OtherIds,
            o \in Offsets,
            cs \in { <<MISSING, 0>>, <<None, 0>>, <<None, 1>>,
                     <<CategoryId, 0>>, <<CategoryId, 1>> } } :
        (r.offset = 0 /\ r.category = MISSING)
          \/ Cardinality({ f \in {"beginning", "end", "before", "after"} :
                             r[f] # MISSING /\ r[f] # 0 }) <= 1 }

----------------------------------------------------------------------------
(* GuildChannel.move *)

Range(s) == { s[i] : i \in 1..Len(s) }

\* bool(a) of an argument
Truthy(a) == a # MISSING /\ a # 0

\* sum(bool(a) for a in (beginning, end, before, after))
SuppliedCount(req) ==
    (IF Truthy(req.beginning) THEN 1 ELSE 0) + (IF Truthy(req.end) THEN 1 ELSE 0)
    + (IF Truthy(req.before) THEN 1 ELSE 0) + (IF Truthy(req.after) THEN 1 ELSE 0)

\* the sort key (c.position, c.id)
KeyLeq(c, d) == c.position < d.position \/ (c.position = d.position /\ c.id <= d.id)

\* channels.sort(key=lambda c: (c.position, c.id))
RECURSIVE SortChannels(_)
SortChannels(S) ==
    IF S = {} THEN <<>>
    ELSE LET m == CHOOSE c \in S : \A d \in S : KeyLeq(c, d)
         IN <<m>> \o SortChannels(S \ {m})

\* channels.remove(self), which tolerates the channel's absence
RemoveId(s, id) == SelectSeq(s, LAMBDA c : c.id # id)

\* list.insert(i, x) for i >= 0: past the end it appends
InsertAt(s, i, x) ==
    LET k == IF i > Len(s) THEN Len(s) ELSE i
    IN SubSeq(s, 1, k) \o <<x>> \o SubSeq(s, k + 1, Len(s))

Max(a, b) == IF a >= b THEN a ELSE b

\* the value of parent_id when category is left out (the literal ...)
Ellipsis == -2

\* index = None
NoIndex == -3

\* next((i for i, c in enumerate(channels) if c.id == id), None)
IndexOfId(s, id) ==
    LET hit == { i \in 1..Len(s) : s[i].id = id }
    IN IF hit = {} THEN NoIndex ELSE (CHOOSE i \in hit : \A j \in hit : i <= j) - 1

ErrOnlyOne == "InvalidArgument: Only one of [before, after, end, beginning] can be used."

ErrResolve == "InvalidArgument: Could not resolve appropriate move position"

\* None.id at line 942
ErrAttribute == "AttributeError: 'NoneType' object has no attribute 'id'"

\* the channel object an operation is called on when guild.channels does not
\* hold it (any more): a text channel outside every category
Detached == [id |-> SelfId, position |-> 0, category_id |-> None, bucket |-> "text"]

\* the channel object of an id: the cached one, or the detached one
ChannelOf(chs, id) ==
    IF \E c \in Range(chs) : c.id = id THEN CHOOSE c \in Range(chs) : c.id = id
    ELSE Detached

\* lines 944-968: the candidates, sorted, without the moved channel
MoveCandidates(chs, slf, parent_id) ==
    LET me == ChannelOf(chs, slf)
        cat == IF parent_id \notin {Ellipsis, None} THEN parent_id ELSE me.category_id
    IN RemoveId(SortChannels({ ch \in Range(chs) :
                                 ch.bucket = me.bucket /\ ch.category_id = cat }), slf)

\* lines 970-978
MoveIndex(cands, req) ==
    IF req.beginning # MISSING THEN 0
    ELSE IF req.end # MISSING THEN Len(cands)
    ELSE IF req.before # MISSING THEN IndexOfId(cands, req.before)
    ELSE IF req.after # MISSING
         THEN IF IndexOfId(cands, req.after) = NoIndex THEN NoIndex
              ELSE IndexOfId(cands, req.after) + 1
    ELSE NoIndex

\* lines 984-989
MovePayload(order, slf, parent_id, sync) ==
    [ i \in 1..Len(order) |->
        IF parent_id # Ellipsis /\ order[i].id = slf
        THEN [id |-> order[i].id, position |-> i - 1,
              parent_id |-> parent_id, lock_permissions |-> sync]
        ELSE [id |-> order[i].id, position |-> i - 1] ]

\* mutant: any mix of beginning, end, before and after is let through
move_noMixCheck(chs, slf, req) ==
    IF req.category = None THEN [raised |-> ErrAttribute, http |-> <<>>]
    ELSE LET parent_id == IF req.category = MISSING THEN Ellipsis ELSE req.category
             cands == MoveCandidates(chs, slf, parent_id)
             index == MoveIndex(cands, req)
         IN IF index = NoIndex THEN [raised |-> ErrResolve, http |-> <<>>]
            ELSE [raised |-> "none",
                  http |-> << [call |-> "bulk_channel_update",
                               payload |-> MovePayload(
                                   InsertAt(cands, Max(index + req.offset, 0),
                                            ChannelOf(chs, slf)),
                                   slf, parent_id, req.sync_permissions)] >>]

\* GuildChannel.move: the exception it ends with and the transport calls it made
move(chs, slf, req) ==
    IF SuppliedCount(req) > 1 THEN [raised |-> ErrOnlyOne, http |-> <<>>]
    ELSE IF req.category = None THEN [raised |-> ErrAttribute, http |-> <<>>]
    ELSE LET parent_id == IF req.category = MISSING THEN Ellipsis ELSE req.category
             cands == MoveCandidates(chs, slf, parent_id)
             index == MoveIndex(cands, req)
         IN IF index = NoIndex THEN [raised |-> ErrResolve, http |-> <<>>]
            ELSE [raised |-> "none",
                  http |-> << [call |-> "bulk_channel_update",
                               payload |-> MovePayload(
                                   InsertAt(cands, Max(index + req.offset, 0),
                                            ChannelOf(chs, slf)),
                                   slf, parent_id, req.sync_permissions)] >>]

----------------------------------------------------------------------------
(* GuildChannel._move *)

\* the transport call failed
ErrHTTP == "HTTPException"

ErrNegative == "InvalidArgument: Channel position cannot be less than 0."

\* channels.sort(key=lambda c: c.position): stable, ties stay in list order
RECURSIVE SortByPosition(_)
SortByPosition(s) ==
    IF s = <<>> THEN <<>>
    ELSE LET rest == SortByPosition(SubSeq(s, 1, Len(s) - 1))
             x == s[Len(s)]
             k == Cardinality({ i \in 1..Len(rest) : rest[i].position <= x.position })
         IN InsertAt(rest, k, x)

\* next((i for i, c in enumerate(channels) if c.position >= position), len(channels))
IndexOfPosition(s, position) ==
    LET hit == { i \in 1..Len(s) : s[i].position >= position }
    IN IF hit = {} THEN Len(s) ELSE (CHOOSE i \in hit : \A j \in hit : i <= j) - 1

\* mutant: each entry keeps the position its channel had
MoveToPayload_keepsPosition(order, slf, parent_id, lock_permissions) ==
    [ i \in 1..Len(order) |->
        IF parent_id # MISSING /\ order[i].id = slf
        THEN [id |-> order[i].id, position |-> order[i].position,
              parent_id |-> parent_id, lock_permissions |-> lock_permissions]
        ELSE [id |-> order[i].id, position |-> order[i].position] ]

\* mutant: every entry carries the category keys
MoveToPayload_allCarry(order, slf, parent_id, lock_permissions) ==
    [ i \in 1..Len(order) |->
        IF parent_id # MISSING
        THEN [id |-> order[i].id, position |-> i - 1,
              parent_id |-> parent_id, lock_permissions |-> lock_permissions]
        ELSE [id |-> order[i].id, position |-> i - 1] ]

\* lines 301-306
MoveToPayload(order, slf, parent_id, lock_permissions) ==
    [ i \in 1..Len(order) |->
        IF parent_id # MISSING /\ order[i].id = slf
        THEN [id |-> order[i].id, position |-> i - 1,
              parent_id |-> parent_id, lock_permissions |-> lock_permissions]
        ELSE [id |-> order[i].id, position |-> i - 1] ]

\* lines 310-312: self.position and self.category_id are assigned
AssignLocal(chs, slf, position, parent_id) ==
    [ i \in 1..Len(chs) |->
        IF chs[i].id # slf THEN chs[i]
        ELSE [chs[i] EXCEPT !.position = position,
                            !.category_id = IF parent_id = MISSING THEN @
                                            ELSE IF Truthy(parent_id) THEN parent_id
                                            ELSE None] ]

\* GuildChannel._move up to its transport call: the exception it raises, the
\* payload it hands to bulk_channel_update (sends = FALSE: it returned at line
\* 295 without a call)
_move(chs, me, position, parent_id, lock_permissions) ==
    IF position < 0 THEN [raised |-> ErrNegative, sends |-> FALSE, payload |-> <<>>]
    ELSE LET sorted == SortByPosition(SelectSeq(chs, LAMBDA c : c.bucket = me.bucket))
         IN IF \A i \in 1..Len(sorted) : sorted[i].id # me.id
            THEN [raised |-> "none", sends |-> FALSE, payload |-> <<>>]
            ELSE LET rest == RemoveId(sorted, me.id)
                     order == InsertAt(rest, IndexOfPosition(rest, position), me)
                 IN [raised |-> "none", sends |-> TRUE,
                     payload |-> MoveToPayload(order, me.id, parent_id, lock_permissions)]

----------------------------------------------------------------------------
(* GuildChannel._edit *)

\* the value of a flag in the wire bitmask (discord/permissions.py)
BitValue(b) ==
    CASE b = "kick_members" -> 2
      [] b = "administrator" -> 8
      [] b = "manage_channels" -> 16
      [] b = "read_messages" -> 1024
      [] b = "send_messages" -> 2048

RECURSIVE MaskValue(_)
MaskValue(S) ==
    IF S = {} THEN 0
    ELSE LET b == CHOOSE x \in S : TRUE IN BitValue(b) + MaskValue(S \ {b})

\* mutant: allow and deny change places
asdict_swapped(o) ==
    [id |-> o.id, allow |-> ToString(MaskValue(o.deny)),
     deny |-> ToString(MaskValue(o.allow)), type |-> o.type]

\* _Overwrites._asdict
asdict(o) ==
    [id |-> o.id, allow |-> ToString(MaskValue(o.allow)),
     deny |-> ToString(MaskValue(o.deny)), type |-> o.type]

\* category._overwrites of the category channel CategoryId
CategoryOverwrites ==
    << [id |-> GuildId, type |-> ROLE, allow |-> {}, deny |-> {"read_messages"}],
       [id |-> 2, type |-> ROLE, allow |-> {"read_messages", "send_messages"},
        deny |-> {}] >>

\* [c._asdict() for c in category._overwrites]
CategoryPayload == [k \in 1..Len(CategoryOverwrites) |-> asdict(CategoryOverwrites[k])]

\* the options dict is a function from the keys given to their values
Without(options, keys) == [k \in DOMAIN options \ keys |-> options[k]]

With(options, key, value) ==
    [k \in DOMAIN options \cup {key} |-> IF k = key THEN value ELSE options[k]]

ErrOverwriteType == "InvalidArgument: Expected PermissionOverwrite received str"

ErrChannelType == "InvalidArgument: type field must be of type ChannelType"

\* get_channel(None) is None
ErrNoCategory == "AttributeError: 'NoneType' object has no attribute '_overwrites'"

\* lines 353-370: perms built from the overwrites mapping
OverwritesPayload(ows) ==
    [ k \in 1..Len(ows) |->
        [allow |-> ows[k].perm.allow, deny |-> ows[k].perm.deny, id |-> ows[k].target,
         type |-> IF ows[k].is_role THEN ROLE ELSE MEMBER] ]

\* the server's channel object is applied: self._update(self.guild, data)
update(chs, slf, d) ==
    [ i \in 1..Len(chs) |->
        IF chs[i].id # slf THEN chs[i]
        ELSE [chs[i] EXCEPT !.position = d.position, !.category_id = d.parent_id] ]

\* lines 353-393, entered with the calls made so far: validation of overwrites
\* and type, then edit_channel and _update. fails is the number (from 1) of the
\* transport call that raises, 0 when none does; d is what edit_channel returns
EditTail(chs, slf, options, calls, fails, d) ==
    IF "overwrites" \in DOMAIN options
       /\ \E k \in 1..Len(options.overwrites) :
             options.overwrites[k].perm.class # "PermissionOverwrite"
    THEN [raised |-> ErrOverwriteType, http |-> calls, channels |-> chs,
          response |-> NoResponse]
    ELSE IF "type" \in DOMAIN options /\ options.type.class # "ChannelType"
    THEN [raised |-> ErrChannelType, http |-> calls, channels |-> chs,
          response |-> NoResponse]
    ELSE LET o1 == IF "overwrites" \in DOMAIN options
                   THEN With(options, "permission_overwrites",
                             OverwritesPayload(options.overwrites))
                   ELSE options
             o2 == IF "type" \in DOMAIN o1 THEN With(o1, "type", o1.type.value) ELSE o1
             sent == Append(calls, [call |-> "edit_channel", payload |-> o2])
         IN IF DOMAIN o2 = {}
            THEN [raised |-> "none", http |-> calls, channels |-> chs,
                  response |-> NoResponse]
            ELSE IF fails = Len(sent)
            THEN [raised |-> ErrHTTP, http |-> sent, channels |-> chs,
                  response |-> NoResponse]
            ELSE [raised |-> "none", http |-> sent, channels |-> update(chs, slf, d),
                  response |-> d]

\* GuildChannel._edit: the exception it ends with, the transport calls it
\* made, guild.channels as it leaves them, and the response it applied
_edit(chs, slf, options, fails, d) ==
    LET me == ChannelOf(chs, slf)
        parent_id == IF "category" \in DOMAIN options THEN options.category ELSE MISSING
        lock_permissions ==
            IF "sync_permissions" \in DOMAIN options THEN options.sync_permissions ELSE 0
        rest == Without(options, {"category", "sync_permissions", "position"})
    IN IF "position" \notin DOMAIN options
       THEN IF parent_id # MISSING
            THEN IF Truthy(lock_permissions) /\ parent_id = None
                 THEN [raised |-> ErrNoCategory, http |-> <<>>, channels |-> chs,
                       response |-> NoResponse]
                 ELSE EditTail(chs, slf,
                               With(IF Truthy(lock_permissions)
                                    THEN With(rest, "permission_overwrites", CategoryPayload)
                                    ELSE rest,
                                    "parent_id", parent_id),
                               <<>>, fails, d)
            ELSE IF Truthy(lock_permissions) /\ me.category_id # None
                 THEN EditTail(chs, slf,
                               With(rest, "permission_overwrites", CategoryPayload),
                               <<>>, fails, d)
                 ELSE EditTail(chs, slf, rest, <<>>, fails, d)
       ELSE LET mv == _move(chs, me, options.position, parent_id, lock_permissions)
                bulk == << [call |-> "bulk_channel_update", payload |-> mv.payload] >>
            IN IF mv.raised # "none"
               THEN [raised |-> mv.raised, http |-> <<>>, channels |-> chs,
                     response |-> NoResponse]
               ELSE IF ~mv.sends
               THEN EditTail(chs, slf, rest, <<>>, fails, d)
               ELSE IF fails = 1
               THEN [raised |-> ErrHTTP, http |-> bulk, channels |-> chs,
                     response |-> NoResponse]
               ELSE EditTail(AssignLocal(chs, slf, options.position, parent_id), slf,
                             rest, bulk, fails, d)

----------------------------------------------------------------------------
(* GuildChannel.set_permissions *)

ErrTarget == "InvalidArgument: target parameter must be either Member or Role, not str"

ErrNoOverwrite == "InvalidArgument: No overwrite provided."

ErrKeywords == "InvalidArgument: Invalid permissions given to keyword arguments."

ErrMix == "InvalidArgument: Cannot mix overwrite and keyword arguments."

ErrOverwrite == "InvalidArgument: Invalid overwrite type provided."

\* PermissionOverwrite(**permissions) raises ValueError for a name that is no
\* permission and for a value that is not True, False or None; keyword values
\* are 1 for True and 0 for False
KeywordsRaise(permissions) ==
    \E k \in 1..Len(permissions) :
        permissions[k][1] \notin PermissionsAll \/ permissions[k][2] \notin {0, 1}

\* PermissionOverwrite(**permissions), and its pair()
PermissionOverwrite(permissions) ==
    [class |-> "PermissionOverwrite",
     allow |-> { permissions[k][1] : k \in { j \in 1..Len(permissions) : permissions[j][2] = 1 } },
     deny |-> { permissions[k][1] : k \in { j \in 1..Len(permissions) : permissions[j][2] = 0 } }]

\* lines 752-759, with fails = 1 when the transport call raises
ApplyOverwrite(id, target, overwrite, perm_type, fails) ==
    LET done(calls) == [raised |-> IF fails = 1 THEN ErrHTTP ELSE "none", http |-> calls]
    IN IF overwrite.class = "NoneType"
       THEN done(<< [call |-> "delete_channel_permissions", channel_id |-> id,
                     target |-> target.id] >>)
       ELSE IF overwrite.class = "PermissionOverwrite"
       THEN done(<< [call |-> "edit_channel_permissions", channel_id |-> id,
                     target |-> target.id, allow |-> MaskValue(overwrite.allow),
                     deny |-> MaskValue(overwrite.deny), type |-> perm_type] >>)
       ELSE [raised |-> ErrOverwrite, http |-> <<>>]

\* mutant: an overwrite given together with keyword arguments is let through
set_permissions_mixed(id, target, overwrite, permissions, fails) ==
    IF target.class \notin {"Member", "User", "Role"}
    THEN [raised |-> ErrTarget, http |-> <<>>]
    ELSE LET perm_type == IF target.class = "Role" THEN "role" ELSE "member"
         IN IF overwrite.class = "MISSING"
            THEN IF permissions = <<>> THEN [raised |-> ErrNoOverwrite, http |-> <<>>]
                 ELSE IF KeywordsRaise(permissions)
                 THEN [raised |-> ErrKeywords, http |-> <<>>]
                 ELSE ApplyOverwrite(id, target, PermissionOverwrite(permissions),
                                     perm_type, fails)
            ELSE ApplyOverwrite(id, target, overwrite, perm_type, fails)

\* GuildChannel.set_permissions: the exception it ends with and the transport
\* calls it made
set_permissions(id, target, overwrite, permissions, fails) ==
    IF target.class \notin {"Member", "User", "Role"}
    THEN [raised |-> ErrTarget, http |-> <<>>]
    ELSE LET perm_type == IF target.class = "Role" THEN "role" ELSE "member"
         IN IF overwrite.class = "MISSING"
            THEN IF permissions = <<>> THEN [raised |-> ErrNoOverwrite, http |-> <<>>]
                 ELSE IF KeywordsRaise(permissions)
                 THEN [raised |-> ErrKeywords, http |-> <<>>]
                 ELSE ApplyOverwrite(id, target, PermissionOverwrite(permissions),
                                     perm_type, fails)
            ELSE IF permissions # <<>> THEN [raised |-> ErrMix, http |-> <<>>]
            ELSE ApplyOverwrite(id, target, overwrite, perm_type, fails)

----------------------------------------------------------------------------
(* The state machine of one guild's channel list *)

\* a guild with a text channel to operate on; each operation starts from idle,
\* and each transport call it makes can fail
InitMove ==
    /\ pc = "idle"
    /\ channels \in GuildChannelLists
    /\ self = SelfId
    /\ request = NoRequest
    /\ raised = "none"
    /\ http = <<>>
    /\ entry = channels
    /\ response = NoResponse
    /\ default = {}
    /\ bit = "administrator"
    /\ data = <<>>
    /\ overwrites = <<>>
    /\ member = NoMember
    /\ result = {}

\* await channel.move(**req)
\* fails = 1: the transport call of line 991 raises
Move ==
    /\ pc = "idle"
    /\ \E req \in Requests :
          \E out \in { LET o == move(channels, self, req)
                       IN [raised |-> IF fails = 1 /\ o.http # <<>> THEN ErrHTTP
                                      ELSE o.raised,
                           http |-> o.http] : fails \in {0, 1} } :
             /\ request' = req
             /\ raised' = out.raised
             /\ http' = out.http
    /\ pc' = "moved"
    /\ entry' = channels
    /\ UNCHANGED <<channels, self, response>>
    /\ UNCHANGED permVars

\* a valid and an invalid value of the overwrites mapping, of one entry each
ValidOverwrites ==
    << [target |-> 2, is_role |-> TRUE,
        perm |-> [class |-> "PermissionOverwrite", allow |-> 1024, deny |-> 2048]] >>

InvalidOverwrites ==
    << [target |-> 2, is_role |-> TRUE, perm |-> [class |-> "str", allow |-> 0, deny |-> 0]] >>

\* the fields other than category, sync_permissions and position
OtherFields ==
    { <<>>,
      [name |-> "general"],
      [overwrites |-> ValidOverwrites],
      [overwrites |-> InvalidOverwrites],
      [type |-> [class |-> "ChannelType", value |-> 5]],
      [type |-> [class |-> "int", value |-> 5]] }

EditPositions == {-1, 0, 2}

\* the keyword arguments of channel.edit(**options)
EditOptions ==
    { c @@ s @@ p @@ o :
        c \in {<<>>, [category |-> None], [category |-> CategoryId]},
        s \in {<<>>, [sync_permissions |-> 1]},
        p \in {<<>>} \cup { [position |-> q] : q \in EditPositions },
        o \in OtherFields }

\* what the server answers to edit_channel: the channel as it is there, which
\* other clients move as well
ServerResponses ==
    { [position |-> 0, parent_id |-> None], [position |-> 2, parent_id |-> CategoryId] }

\* await channel._edit(options, reason)
Edit ==
    /\ pc = "idle"
    /\ \E options \in EditOptions :
          \E out \in { _edit(channels, self, options, fails, d) :
                         fails \in 0..2, d \in ServerResponses } :
             /\ request' = options
             /\ raised' = out.raised
             /\ http' = out.http
             /\ channels' = out.channels
             /\ response' = out.response
    /\ pc' = "edited"
    /\ entry' = channels
    /\ UNCHANGED self
    /\ UNCHANGED permVars

\* the targets handed to set_permissions: a member, a user, a role and a string
Targets ==
    { [class |-> "Member", id |-> 11], [class |-> "User", id |-> OwnerId],
      [class |-> "Role", id |-> 2], [class |-> "str", id |-> 0] }

\* the overwrite argument: left out, None, a PermissionOverwrite, a string
OverwriteArguments ==
    { [class |-> "MISSING", allow |-> {}, deny |-> {}],
      [class |-> "NoneType", allow |-> {}, deny |-> {}],
      [class |-> "PermissionOverwrite", allow |-> {"read_messages"},
       deny |-> {"send_messages"}],
      [class |-> "str", allow |-> {}, deny |-> {}] }

\* **permissions: none, a valid pair of flags, a value that is no bool, a name
\* that is no permission
KeywordArguments ==
    { <<>>,
      << <<"read_messages", 1>>, <<"send_messages", 0>> >>,
      << <<"read_messages", 5>> >>,
      << <<"bogus", 1>> >> }

\* await channel.set_permissions(target, overwrite=overwrite, **permissions)
SetPermissions ==
    /\ pc = "idle"
    /\ \E target \in Targets, overwrite \in OverwriteArguments,
          permissions \in KeywordArguments, fails \in {0, 1} :
          LET out == set_permissions(self, target, overwrite, permissions, fails)
          IN /\ request' = [target |-> target, overwrite |-> overwrite,
                            permissions |-> permissions]
             /\ raised' = out.raised
             /\ http' = out.http
    /\ pc' = "permissions_set"
    /\ entry' = channels
    /\ UNCHANGED <<channels, self, response>>
    /\ UNCHANGED permVars

\* the caller has seen the outcome; the next call starts afresh
Return ==
    /\ pc \in {"moved", "edited", "permissions_set"}
    /\ pc' = "idle"
    /\ request' = NoRequest
    /\ raised' = "none"
    /\ http' = <<>>
    /\ entry' = channels
    /\ response' = NoResponse
    /\ UNCHANGED <<channels, self>>
    /\ UNCHANGED permVars

NextMove == Move \/ Edit \/ SetPermissions \/ Return

SpecMove == InitMove /\ [][NextMove]_vars

\* a guild whose moved channel is a category channel: the others are category
\* channels, or a text channel inside the category CategoryId
CategoryOtherChoices(k) ==
    { [id |-> OtherId(k), position |-> p, category_id |-> None, bucket |-> "category"] :
        p \in Positions }
    \cup { [id |-> OtherId(k), position |-> 0, category_id |-> CategoryId, bucket |-> "text"] }

RECURSIVE CategoryOtherLists(_)
CategoryOtherLists(n) ==
    IF n = 0 THEN {<<>>}
    ELSE { Append(s, c) : s \in CategoryOtherLists(n - 1), c \in CategoryOtherChoices(n) }

CategoryChannelLists ==
    UNION { { << [id |-> SelfId, position |-> p, category_id |-> None,
                  bucket |-> "category"] >> \o s :
                p \in Positions, s \in CategoryOtherLists(n) } : n \in 0..MaxOthers }

InitMoveCategory ==
    /\ pc = "idle"
    /\ channels \in CategoryChannelLists
    /\ self = SelfId
    /\ request = NoRequest
    /\ raised = "none"
    /\ http = <<>>
    /\ entry = channels
    /\ response = NoResponse
    /\ default = {}
    /\ bit = "administrator"
    /\ data = <<>>
    /\ overwrites = <<>>
    /\ member = NoMember
    /\ result = {}

SpecMoveCategory == InitMoveCategory /\ [][NextMove]_vars

\* a guild whose cache does not hold the channel the operation is called on
\* (the channel object outlived its removal from guild.channels)
StaleChannelLists == UNION { OtherLists(n) : n \in 1..MaxOthers }

InitMoveStale ==
    /\ pc = "idle"
    /\ channels \in StaleChannelLists
    /\ self = SelfId
    /\ request = NoRequest
    /\ raised = "none"
    /\ http = <<>>
    /\ entry = channels
    /\ response = NoResponse
    /\ default = {}
    /\ bit = "administrator"
    /\ data = <<>>
    /\ overwrites = <<>>
    /\ member = NoMember
    /\ result = {}

SpecMoveStale == InitMoveStale /\ [][NextMove]_vars

----------------------------------------------------------------------------
(* Calls in flight: the cache changes while a call is suspended *)

\* every channel a text channel outside the categories: what the gateway
\* changes below is their positions
InFlightChannelLists ==
    { s \in GuildChannelLists :
        \A i \in 1..Len(s) : s[i].bucket = "text" /\ s[i].category_id = None }

\* the overwrite lists the gateway replaces the channel's with
InFlightData ==
    { <<>>,
      << [id |-> GuildId, type |-> ROLE, allow |-> {}, deny |-> {"read_messages"}] >>,
      << [id |-> 2, type |-> ROLE, allow |-> {"send_messages"}, deny |-> {}],
         [id |-> GuildId, type |-> ROLE, allow |-> {}, deny |-> {"send_messages"}] >> }

InitInFlight ==
    /\ pc = "idle"
    /\ channels \in InFlightChannelLists
    /\ self = SelfId
    /\ request = NoRequest
    /\ raised = "none"
    /\ http = <<>>
    /\ entry = channels
    /\ response = NoResponse
    /\ default = {"read_messages", "send_messages"}
    /\ bit = "read_messages"
    /\ data = <<>>
    /\ overwrites = <<>>
    /\ member = NoMember
    /\ result = {}

\* mutant: the payload is built again from the cache when the call resumes
PayloadSent_rebuilt(built, rebuilt) == rebuilt

\* the payload the transport gets is the list built before the await (lines
\* 984-991 and 301-308): a local of the coroutine, which no cache change
\* reaches
PayloadSent(built, rebuilt) == built

\* move runs up to its await of bulk_channel_update (line 991)
StartMove ==
    /\ pc = "idle"
    /\ \E req \in { r \in Requests :
                      r.offset = 0 /\ r.category = MISSING /\ SuppliedCount(r) <= 1 } :
          /\ request' = req
          /\ http' = move(channels, self, req).http
    /\ pc' = "move_awaiting"
    /\ entry' = channels
    /\ UNCHANGED <<channels, self, raised, response>>
    /\ UNCHANGED permVars

\* _edit with a position alone runs into _move, up to its await of
\* bulk_channel_update (line 308)
StartEdit ==
    /\ pc = "idle"
    /\ \E position \in EditPositions \ {-1} :
          /\ request' = [position |-> position]
          /\ http' = << [call |-> "bulk_channel_update",
                         payload |-> _move(channels, ChannelOf(channels, self), position,
                                           MISSING, 0).payload] >>
    /\ pc' = "_move_awaiting"
    /\ entry' = channels
    /\ UNCHANGED <<channels, self, raised, response>>
    /\ UNCHANGED permVars

\* while the call is suspended the gateway reports another position for one
\* cached channel (once per call)
ChannelEvent ==
    /\ pc \in {"move_awaiting", "_move_awaiting"}
    /\ channels = entry
    /\ \E i \in 1..Len(channels), p \in Positions :
          /\ channels[i].position # p
          /\ channels' = [channels EXCEPT ![i].position = p]
    /\ UNCHANGED <<pc, self, request, raised, http, entry, response>>
    /\ UNCHANGED permVars

\* the transport call returns or raises and the coroutine runs to its end:
\* for _move, lines 310-312
Resume ==
    /\ pc \in {"move_awaiting", "_move_awaiting"}
    /\ \E fails \in {0, 1} :
          /\ raised' = IF fails = 1 THEN ErrHTTP ELSE "none"
          /\ channels' = IF pc = "_move_awaiting" /\ fails = 0
                         THEN AssignLocal(channels, self, request.position, MISSING)
                         ELSE channels
    /\ http' = [http EXCEPT ![1].payload =
                   PayloadSent(@, IF pc = "move_awaiting"
                                  THEN move(channels, self, request).http[1].payload
                                  ELSE _move(channels, ChannelOf(channels, self),
                                             request.position, MISSING, 0).payload)]
    /\ pc' = IF pc = "move_awaiting" THEN "moved" ELSE "edited"
    /\ UNCHANGED <<self, request, entry, response>>
    /\ UNCHANGED permVars

\* channel.permissions_for(m): no await in it, it runs in one piece
Resolve ==
    /\ pc \in {"idle", "resolved"}
    /\ \E m \in Members :
          /\ member' = m
          /\ result' = permissions_for(overwrites, default, m)
    /\ pc' = "resolved"
    /\ UNCHANGED <<default, bit, data, overwrites>>
    /\ UNCHANGED moveVars

\* the gateway replaces the channel's overwrites: _fill_overwrites runs anew
OverwritesEvent ==
    /\ pc \in {"idle", "resolved"}
    /\ \E d \in InFlightData \ {data} :
          /\ data' = d
          /\ overwrites' = fill_overwrites(d)
    /\ pc' = "idle"
    /\ member' = NoMember
    /\ result' = {}
    /\ UNCHANGED <<default, bit>>
    /\ UNCHANGED moveVars

NextInFlight ==
    StartMove \/ StartEdit \/ ChannelEvent \/ Resume \/ Resolve \/ OverwritesEvent \/ Return

SpecInFlight == InitInFlight /\ [][NextInFlight]_vars

----------------------------------------------------------------------------
(* Properties of permission resolution *)

Resolved == pc = "resolved"

NonOwnerNonAdmin ==
    /\ Resolved
    /\ member.id # OwnerId
    /\ "administrator" \notin GuildBase(default, member)

\* the overwrites of the channel that name the member: as a member, or as one
\* of its roles (@everyone included)
TargetsMember(o) ==
    \/ is_member(o) /\ o.id = member.id
    \/ is_role(o) /\ o.id \in member.roles \cup {GuildId}

\* C1: permissions_for of the guild owner is Permissions.all(), whatever the
\* owner's roles and whatever the overwrites deny.
C1_OwnerGetsAll ==
    (Resolved /\ member.id = OwnerId) => result = PermissionsAll

C1_Witness ==
    /\ Resolved
    /\ member.id = OwnerId
    /\ default = {}
    /\ \E i \in 1..Len(overwrites) :
          /\ is_member(overwrites[i]) /\ overwrites[i].id = OwnerId
          /\ overwrites[i].deny # {} /\ overwrites[i].allow = {}
    /\ result = PermissionsAll

\* C2: a member who is not the owner and whose default role and held roles
\* together grant administrator gets Permissions.all(), whatever the
\* overwrites deny.
C2_AdministratorGetsAll ==
    (Resolved /\ member.id # OwnerId /\ "administrator" \in GuildBase(default, member))
        => result = PermissionsAll

C2_Witness ==
    /\ Resolved
    /\ member.id # OwnerId
    /\ "administrator" \in GuildBase(default, member)
    /\ \E i \in 1..Len(overwrites) :
          /\ TargetsMember(overwrites[i])
          /\ overwrites[i].deny = {"administrator"} /\ overwrites[i].allow = {}
    /\ result = PermissionsAll

\* the wire list holds a role-kind record of the @everyone role
HasEveryone(d) == \E i \in 1..Len(d) : d[i].type = ROLE /\ d[i].id = GuildId

\* C3: after _fill_overwrites, if the wire list holds a role-kind record with
\* the guild's id at any index, index 0 of _overwrites is a role-kind record
\* with the guild's id.
C3_EveryoneFirst ==
    (pc # "data" /\ HasEveryone(data))
        => /\ Len(overwrites) > 0
           /\ is_role(overwrites[1])
           /\ overwrites[1].id = GuildId

C3_Witness ==
    /\ pc = "filled"
    /\ Len(data) = 2
    /\ data[1].id = 2
    /\ data[2].type = ROLE /\ data[2].id = GuildId
    /\ overwrites[1].id = GuildId
    /\ overwrites[2].id = 2

\* a role overwrite of a role the member holds denies the bit, and the member's
\* own overwrite allows it
RoleDeniesMemberAllows ==
    /\ NonOwnerNonAdmin
    /\ \E i \in 1..Len(overwrites) :
          /\ is_role(overwrites[i]) /\ overwrites[i].id \in member.roles
          /\ bit \in overwrites[i].deny
    /\ \E j \in 1..Len(overwrites) :
          /\ is_member(overwrites[j]) /\ overwrites[j].id = member.id
          /\ bit \in overwrites[j].allow

\* C4, as claimed: the bit a role overwrite denies and the member overwrite
\* allows is in the returned set.
C4_Original == RoleDeniesMemberAllows => bit \in result

\* whether the dependent clearing of lines 620-636 takes bit b out of base
ClearedFrom(base, b) ==
    \/ b \in SendDependentBits /\ "send_messages" \notin base
    \/ b \in PermissionsAllChannel /\ "read_messages" \notin base

\* C4, amended: the bit a role overwrite denies and the member overwrite allows
\* is in base after the overwrite steps, and it is in the returned set exactly
\* when the dependent clearing does not take it out (it is not a send-dependent
\* bit of a base without send_messages, nor a channel-scoped bit of a base
\* without read_messages).
C4_MemberAllowWins ==
    RoleDeniesMemberAllows =>
        LET base == BaseAfterOverwrites(overwrites, default, member)
        IN /\ bit \in base
           /\ bit \in result <=> ~ClearedFrom(base, bit)

C4_Witness ==
    /\ RoleDeniesMemberAllows
    /\ bit = "embed_links"
    /\ default = {"read_messages", "send_messages"}
    /\ bit \in result

\* C5: for a member who is neither owner nor administrator, when base after
\* the guild roles and all overwrites lacks read_messages, no bit of
\* Permissions.all_channel() is in the returned set, the bits an overwrite
\* allowed included.
C5_UnreadableHasNoChannelBits ==
    (NonOwnerNonAdmin
       /\ "read_messages" \notin BaseAfterOverwrites(overwrites, default, member))
        => result \cap PermissionsAllChannel = {}

C5_Witness ==
    /\ NonOwnerNonAdmin
    /\ "read_messages" \notin BaseAfterOverwrites(overwrites, default, member)
    /\ \E i \in 1..Len(overwrites) :
          /\ TargetsMember(overwrites[i])
          /\ overwrites[i].allow = {"manage_channels"}
    /\ "manage_channels" \in BaseAfterOverwrites(overwrites, default, member)
    /\ result \cap PermissionsAllChannel = {}

----------------------------------------------------------------------------
(* Properties of move *)

Moved == pc = "moved"

\* the request names exactly one of beginning, end, before, after
BeginningOnly ==
    /\ request.beginning = 1 /\ request.end = 0
    /\ request.before = MISSING /\ request.after = MISSING

EndOnly ==
    /\ request.beginning = 0 /\ request.end = 1
    /\ request.before = MISSING /\ request.after = MISSING

BeforeOnly ==
    /\ request.beginning = 0 /\ request.end = 0
    /\ request.before # MISSING /\ request.after = MISSING

AfterOnly ==
    /\ request.beginning = 0 /\ request.end = 0
    /\ request.before = MISSING /\ request.after # MISSING

\* the channel before= or after= names
Anchor == IF request.before # MISSING THEN request.before ELSE request.after

Ids(s) == [i \in 1..Len(s) |-> s[i].id]

\* the candidate set of the request: the channels of the moved channel's
\* bucket in the requested category, or in its own when none is requested
CandidateSet ==
    LET me == ChannelOf(channels, self)
        cat == IF request.category = MISSING THEN me.category_id ELSE request.category
    IN { ch \in Range(channels) : ch.bucket = me.bucket /\ ch.category_id = cat }

\* the other candidates in (position, id) order
Others == SortChannels(CandidateSet \ {ChannelOf(channels, self)})

\* one bulk_channel_update was issued, and nothing else
Sent == Len(http) = 1 /\ http[1].call = "bulk_channel_update"

Emitted == http[1].payload

EmittedPosition(id) ==
    LET i == CHOOSE k \in 1..Len(Emitted) : Emitted[k].id = id
    IN Emitted[i].position

\* C6, as claimed: move(end=True) with offset 0 emits the other candidates in
\* their (position, id) order followed by the moved channel, whose position is
\* the number of other candidates.
C6_EndPlacesLast ==
    (Moved /\ EndOnly /\ request.offset = 0 /\ request.category # None)
        => /\ Sent
           /\ Ids(Emitted) = Ids(Others) \o <<self>>
           /\ EmittedPosition(self) = Len(Others)

\* C7, as claimed: move(before=Y) with offset 0 and Y a candidate emits the
\* moved channel right before Y, move(after=Y) right after Y, and the other
\* candidates keep their order.
C7_NextToAnchor ==
    (Moved /\ (BeforeOnly \/ AfterOnly) /\ request.offset = 0
       /\ request.category # None
       /\ \E i \in 1..Len(Others) : Others[i].id = Anchor)
        => /\ Sent
           /\ BeforeOnly => EmittedPosition(self) + 1 = EmittedPosition(Anchor)
           /\ AfterOnly => EmittedPosition(Anchor) + 1 = EmittedPosition(self)
           /\ Ids(RemoveId(Emitted, self)) = Ids(Others)

\* C8, as claimed: move(before=Y) or move(after=Y) with Y not among the
\* candidates raises InvalidArgument and issues no bulk_channel_update.
C8_UnresolvedAnchorRaises ==
    (Moved /\ (BeforeOnly \/ AfterOnly) /\ request.category # None
       /\ \A i \in 1..Len(Others) : Others[i].id # Anchor)
        => /\ raised = ErrResolve
           /\ http = <<>>

\* the request names the slot the moved channel already has among its own
\* candidates
DenotesCurrentSlot ==
    LET cur == SortChannels(CandidateSet)
        k == CHOOSE i \in 1..Len(cur) : cur[i].id = self
    IN \/ BeginningOnly /\ k = 1
       \/ EndOnly /\ k = Len(cur)
       \/ BeforeOnly /\ k < Len(cur) /\ request.before = cur[k + 1].id
       \/ AfterOnly /\ k > 1 /\ request.after = cur[k - 1].id

\* C9, as claimed: a request that names the moved channel's current slot
\* (offset 0, no category) emits the candidates in their current
\* (position, id) order.
C9_CurrentSlotIsIdempotent ==
    (Moved /\ request.category = MISSING /\ request.offset = 0 /\ DenotesCurrentSlot)
        => /\ Sent
           /\ Ids(Emitted) = Ids(SortChannels(CandidateSet))

\* C10: move raises InvalidArgument, with no transport call, when more than one
\* of beginning, end, before, after is supplied, and does not raise that error
\* when exactly one is.
C10_OnlyOneSelector ==
    Moved =>
        /\ SuppliedCount(request) > 1 => (raised = ErrOnlyOne /\ http = <<>>)
        /\ SuppliedCount(request) = 1 => raised # ErrOnlyOne

C10_Witness ==
    /\ Moved
    /\ request.end = 1
    /\ request.before \in OtherIds
    /\ request.beginning = 0
    /\ request.after = MISSING
    /\ raised = ErrOnlyOne
    /\ http = <<>>

----------------------------------------------------------------------------
(* The layers of permission resolution *)

\* base when the role-overwrite step begins: the guild roles, then the
\* @everyone overwrite
BaseBeforeRoles ==
    IF EveryoneFirst(overwrites)
    THEN handle_overwrite(GuildBase(default, member), overwrites[1].allow,
                          overwrites[1].deny)
    ELSE GuildBase(default, member)

\* the role overwrites of roles the member holds
HeldRoleOverwrites ==
    LET rem == remaining_overwrites(overwrites)
    IN { rem[i] : i \in { j \in 1..Len(rem) : is_role(rem[j]) /\ rem[j].id \in member.roles } }

\* a list in another order
Permuted(s, f) == [i \in 1..Len(s) |-> s[f[i]]]

\* C21: the role overwrites of the held roles are OR-ed and applied once,
\* deny then allow: a bit one of them denies and another allows is set after
\* the role step, and the step gives the same base for every order of the
\* overwrites.
C21_RolesCombined ==
    NonOwnerNonAdmin =>
        LET rem == remaining_overwrites(overwrites)
            after == ApplyRoleOverwrites(BaseBeforeRoles, rem, member)
        IN /\ \A B \in PermissionsAll :
                 ((\E o \in HeldRoleOverwrites : B \in o.deny)
                    /\ (\E o \in HeldRoleOverwrites : B \in o.allow)) => B \in after
           /\ \A f \in Permutations(1..Len(rem)) :
                 ApplyRoleOverwrites(BaseBeforeRoles, Permuted(rem, f), member) = after
           /\ result = ClearDependent(ApplyMemberOverwrite(after, rem, member))

\* the allowing overwrite comes first in the list, the denying one second
C21_Witness ==
    /\ NonOwnerNonAdmin
    /\ bit = "read_messages"
    /\ Len(overwrites) = 2
    /\ is_role(overwrites[1]) /\ overwrites[1].id = 4 /\ bit \in overwrites[1].allow
    /\ is_role(overwrites[2]) /\ overwrites[2].id = 2 /\ bit \in overwrites[2].deny
    /\ bit \notin overwrites[1].deny
    /\ bit \notin default
    /\ bit \in result

\* the member-kind overwrites that name the member
OwnMemberOverwrites ==
    LET rem == remaining_overwrites(overwrites)
    IN { rem[i] : i \in { j \in 1..Len(rem) : is_member(rem[j]) /\ rem[j].id = member.id } }

\* C22: a bit the member's own member-kind overwrite denies and does not
\* allow is not in the returned set, whatever the guild roles and the other
\* overwrites allow; without an overwrite of kind member and the member's id
\* the member step changes nothing.
C22_MemberLayerLast ==
    NonOwnerNonAdmin =>
        /\ \A B \in PermissionsAll :
              (\E o \in OwnMemberOverwrites : B \in o.deny /\ B \notin o.allow)
                  => B \notin result
        /\ OwnMemberOverwrites = {}
              => result = ClearDependent(
                             ApplyRoleOverwrites(BaseBeforeRoles,
                                                 remaining_overwrites(overwrites), member))

\* a held role's overwrite allows the bit, the member's own denies it
C22_Witness ==
    /\ NonOwnerNonAdmin
    /\ member.id = 11
    /\ bit = "read_messages"
    /\ bit \in default
    /\ Len(overwrites) = 2
    /\ is_role(overwrites[1]) /\ overwrites[1].id = 2 /\ bit \in overwrites[1].allow
    /\ is_member(overwrites[2]) /\ overwrites[2].id = 11
    /\ bit \in overwrites[2].deny /\ bit \notin overwrites[2].allow
    /\ bit \notin result

----------------------------------------------------------------------------
(* The frame of _fill_overwrites, and the administrator bit *)

Filled == pc \in {"filled", "resolved"}

\* the wire list parsed, in wire order
Parsed == [k \in 1..Len(data) |-> ParseOverwrite(data[k])]

\* the places (from 1) of the role-kind records whose id is the guild id
EveryonePlaces == { k \in 1..Len(data) : data[k].type = ROLE /\ data[k].id = GuildId }

Count(s, r) == Cardinality({ k \in 1..Len(s) : s[k] = r })

\* C29: _fill_overwrites exchanges two elements at most: the result has the
\* length and the records of the input, every place but the first and the
\* @everyone record's holds the input's record, and without a role-kind
\* record of the guild's id the result is the input in its order.
C29_OnlyExchanges ==
    Filled =>
        /\ Len(overwrites) = Len(data)
        /\ \A r \in Range(Parsed) \cup Range(overwrites) :
              Count(overwrites, r) = Count(Parsed, r)
        /\ \A k \in 1..Len(data) :
              (k # 1 /\ k \notin EveryonePlaces) => overwrites[k] = Parsed[k]
        /\ EveryonePlaces = {} => overwrites = Parsed

\* a member-kind record with the guild's id comes last of three: nothing moves
C29_Witness ==
    /\ Filled
    /\ Len(data) = 3
    /\ data[1].id = 2
    /\ data[3].id = GuildId /\ data[3].type = MEMBER
    /\ EveryonePlaces = {}
    /\ overwrites = Parsed

\* C30, as claimed: for a member who is not the owner and whose guild roles
\* do not grant administrator, the returned set lacks the administrator bit.
C30_NoAdministratorFromOverwrites ==
    NonOwnerNonAdmin => "administrator" \notin result

----------------------------------------------------------------------------
(* Properties of every bulk payload, of move and of _move *)

Edited == pc = "edited"

\* the payloads of the bulk_channel_update calls of the operation
BulkPayloads ==
    { http[k].payload : k \in { j \in 1..Len(http) : http[j].call = "bulk_channel_update" } }

\* the channels a bulk payload has to list, by id: for move the candidates of
\* the request and the moved channel, for _move the channels of the moved
\* channel's bucket as they were when the operation began
Listed ==
    IF Moved THEN { c.id : c \in CandidateSet } \cup {self}
    ELSE { c.id : c \in { x \in Range(entry) : x.bucket = ChannelOf(entry, self).bucket } }

\* C11: every bulk payload emitted by move and by _move lists each candidate
\* and the moved channel exactly once, and its i-th entry (from 0) carries
\* position i.
C11_DensePayload ==
    (Moved \/ Edited) =>
        \A p \in BulkPayloads :
            /\ { p[i].id : i \in 1..Len(p) } = Listed
            /\ Len(p) = Cardinality(Listed)
            /\ \A i \in 1..Len(p) : p[i].position = i - 1

\* _move over a list with a tie and a gap: the others both at position 2
C11_Witness ==
    /\ Edited
    /\ Len(entry) = 3
    /\ \A i \in 2..3 : entry[i].bucket = "text" /\ entry[i].position = 2
    /\ ChannelOf(entry, self).position = 0
    /\ "position" \in DOMAIN request
    /\ request.position = 2
    /\ \E p \in BulkPayloads : Len(p) = 3 /\ p[1].id = self

----------------------------------------------------------------------------
(* The candidates of _move and their order *)

\* C23, as claimed: every channel in a bulk payload of _move has the moved
\* channel's sorting bucket and its current category.
C23_SameBucketAndCategory ==
    Edited =>
        \A p \in BulkPayloads : \A i \in 1..Len(p) :
            /\ ChannelOf(entry, p[i].id).bucket = ChannelOf(entry, self).bucket
            /\ ChannelOf(entry, p[i].id).category_id = ChannelOf(entry, self).category_id

\* C24, as claimed: in every bulk payload of move and _move, two channels
\* other than the moved one that report the same position are emitted in
\* ascending id order.
C24_TiesById ==
    (Moved \/ Edited) =>
        \A p \in BulkPayloads : \A i, j \in 1..Len(p) :
            (/\ i < j
             /\ p[i].id # self /\ p[j].id # self
             /\ ChannelOf(entry, p[i].id).position = ChannelOf(entry, p[j].id).position)
                => p[i].id < p[j].id

\* the moved channel is not among the channels the operation collects
AbsentFromCandidates ==
    IF Moved THEN self \notin { c.id : c \in CandidateSet }
    ELSE self \notin { c.id : c \in Range(entry) }

\* C25, as claimed: when the moved channel is absent from the candidate list,
\* move (with beginning or end) and _move (with a position that is not
\* negative) still send a bulk update that holds the moved channel's entry.
C25_AbsentIsPlaced ==
    (/\ \/ Moved /\ (BeginningOnly \/ EndOnly) /\ request.category # None
        \/ Edited /\ "position" \in DOMAIN request /\ request.position >= 0
     /\ AbsentFromCandidates)
        => \E p \in BulkPayloads : \E i \in 1..Len(p) : p[i].id = self

\* C26, as claimed: one invocation of move or _edit issues at most one
\* transport call.
C26_OneTransportCall ==
    (Moved \/ Edited) => Len(http) <= 1

----------------------------------------------------------------------------
(* Errors, failures and the local cache *)

PermissionsSet == pc = "permissions_set"

\* the InvalidArgument errors of the four operations
InvalidArguments ==
    { ErrOnlyOne, ErrResolve, ErrNegative, ErrOverwriteType, ErrChannelType,
      ErrTarget, ErrNoOverwrite, ErrKeywords, ErrMix, ErrOverwrite }

\* C12, as claimed: an operation that raises InvalidArgument has issued no
\* transport call; in particular an _edit with a position and an invalid
\* overwrites or type value has sent no bulk_channel_update.
C12_FailFast ==
    ((Moved \/ Edited \/ PermissionsSet) /\ raised \in InvalidArguments) => http = <<>>

\* position and category_id of the channel in a channel list
Local(chs) ==
    [position |-> ChannelOf(chs, self).position,
     category_id |-> ChannelOf(chs, self).category_id]

\* C13, as claimed: an operation that ends with a transport failure leaves
\* the channel's local position and category_id as they were when it began.
C13_FailureLeavesLocal ==
    ((Moved \/ Edited) /\ raised = ErrHTTP) => Local(channels) = Local(entry)

\* C14, as claimed: move(beginning=True, category=None) succeeds, lists the
\* channels of the bucket that have no category, and the moved channel's entry
\* carries parent_id None and the lock_permissions flag.
C14_CategoryNone ==
    (Moved /\ BeginningOnly /\ request.category = None /\ raised # ErrHTTP)
        => /\ raised = "none"
           /\ Sent
           /\ { Emitted[i].id : i \in 1..Len(Emitted) } = Listed
           /\ \E i \in 1..Len(Emitted) :
                 /\ Emitted[i].id = self
                 /\ DOMAIN Emitted[i] = {"id", "position", "parent_id", "lock_permissions"}
                 /\ Emitted[i].parent_id = None
                 /\ Emitted[i].lock_permissions = request.sync_permissions

Min(a, b) == IF a < b THEN a ELSE b

\* the index the request's one selector denotes among the other candidates
AnchorIndex ==
    IF BeginningOnly THEN 0
    ELSE IF EndOnly THEN Len(Others)
    ELSE IF BeforeOnly THEN IndexOfId(Others, Anchor)
    ELSE IndexOfId(Others, Anchor) + 1

\* C15, as claimed: with one selector that resolves, move does not fail for
\* any offset and emits the moved channel at
\* max(0, min(anchor + offset, len(candidates))).
C15_OffsetClamped ==
    (Moved /\ request.category # None
       /\ (BeginningOnly \/ EndOnly
             \/ ((BeforeOnly \/ AfterOnly)
                   /\ \E i \in 1..Len(Others) : Others[i].id = Anchor)))
        => /\ raised \in {"none", ErrHTTP}
           /\ Sent
           /\ EmittedPosition(self)
                = Max(0, Min(AnchorIndex + request.offset, Len(Others)))

\* a category was given to the operation: a category, or None
CategoryRequested ==
    IF Moved THEN request.category # MISSING ELSE "category" \in DOMAIN request

\* C16: in every bulk payload of move and _move the moved channel's entry
\* carries parent_id and lock_permissions exactly when a category was given
\* (None included), and every other entry carries id and position only.
C16_CategoryKeys ==
    (Moved \/ Edited) =>
        \A p \in BulkPayloads : \A i \in 1..Len(p) :
            DOMAIN p[i] = IF p[i].id = self /\ CategoryRequested
                          THEN {"id", "position", "parent_id", "lock_permissions"}
                          ELSE {"id", "position"}

\* edit(position=0, category=None) with another channel in the bucket
C16_Witness ==
    /\ Edited
    /\ "category" \in DOMAIN request
    /\ request.category = None
    /\ \E p \in BulkPayloads :
          /\ Len(p) >= 2
          /\ p[1].id = self
          /\ p[1].parent_id = None
          /\ DOMAIN p[2] = {"id", "position"}

----------------------------------------------------------------------------
(* Moving a category channel *)

\* C17, as claimed: when the moved channel is a category channel, move with a
\* category given does what the same request without the category does: the
\* same outcome and the same payload, with no parent_id in it.
C17_CategoryIgnored ==
    (Moved /\ ChannelOf(channels, self).bucket = "category"
       /\ request.category \notin {MISSING, None} /\ raised # ErrHTTP)
        => LET out == move(channels, self, [request EXCEPT !.category = MISSING])
           IN /\ raised = out.raised
              /\ http = out.http

----------------------------------------------------------------------------
(* set_permissions *)

\* the arguments are ones set_permissions accepts
ValidArguments ==
    /\ request.target.class \in {"Member", "User", "Role"}
    /\ \/ request.overwrite.class \in {"NoneType", "PermissionOverwrite"}
          /\ request.permissions = <<>>
       \/ request.overwrite.class = "MISSING"
          /\ request.permissions # <<>>
          /\ ~KeywordsRaise(request.permissions)

\* the overwrite the call is about: the one given, or the one the keyword
\* arguments make
EffectiveOverwrite ==
    IF request.overwrite.class = "MISSING" THEN PermissionOverwrite(request.permissions)
    ELSE request.overwrite

\* C18: set_permissions raises InvalidArgument without a transport call for a
\* target that is no role, member or user, for an overwrite mixed with keyword
\* permissions, for neither of them, and for an overwrite of a wrong type; on
\* valid arguments it issues exactly one call, delete_channel_permissions for
\* overwrite None and otherwise edit_channel_permissions with the overwrite's
\* (allow, deny) pair.
C18_SetPermissions ==
    PermissionsSet =>
        /\ (\/ request.target.class \notin {"Member", "User", "Role"}
            \/ request.overwrite.class # "MISSING" /\ request.permissions # <<>>
            \/ request.overwrite.class = "MISSING" /\ request.permissions = <<>>
            \/ request.overwrite.class \notin {"MISSING", "NoneType", "PermissionOverwrite"})
              => (raised \in InvalidArguments /\ http = <<>>)
        /\ ValidArguments
              => /\ Len(http) = 1
                 /\ raised \in {"none", ErrHTTP}
                 /\ http[1].channel_id = self
                 /\ http[1].target = request.target.id
                 /\ IF request.overwrite.class = "NoneType"
                    THEN http[1].call = "delete_channel_permissions"
                    ELSE /\ http[1].call = "edit_channel_permissions"
                         /\ http[1].allow = MaskValue(EffectiveOverwrite.allow)
                         /\ http[1].deny = MaskValue(EffectiveOverwrite.deny)
                         /\ http[1].type
                              = IF request.target.class = "Role" THEN "role" ELSE "member"

\* set_permissions(role, read_messages=True, send_messages=False)
C18_Witness ==
    /\ PermissionsSet
    /\ request.target.class = "Role"
    /\ request.overwrite.class = "MISSING"
    /\ request.permissions # <<>>
    /\ raised = "none"
    /\ Len(http) = 1
    /\ http[1].call = "edit_channel_permissions"
    /\ http[1].allow = 1024
    /\ http[1].deny = 2048

----------------------------------------------------------------------------
(* The local cache *)

\* C19, as claimed: after a successful move, _move or _edit the channel's
\* local position and category_id are what they were, or what the server's
\* response applied by _update says.
C19_OnlyServerWrites ==
    ((Moved \/ Edited) /\ raised = "none" /\ Local(channels) # Local(entry))
        => /\ response # NoResponse
           /\ Local(channels).position = response.position
           /\ Local(channels).category_id = response.parent_id

----------------------------------------------------------------------------
(* The category's overwrites in the edit payload *)

\* _edit without a position has issued its edit_channel call
EditSent ==
    /\ Edited
    /\ "position" \notin DOMAIN request
    /\ Len(http) = 1
    /\ http[1].call = "edit_channel"

\* the category's overwrite list as the wire wants it: the same records in
\* the same order, the masks as decimal strings
IsCategoryCopy(p) ==
    /\ Len(p) = Len(CategoryOverwrites)
    /\ \A k \in 1..Len(p) :
          /\ p[k].id = CategoryOverwrites[k].id
          /\ p[k].type = CategoryOverwrites[k].type
          /\ p[k].allow = ToString(MaskValue(CategoryOverwrites[k].allow))
          /\ p[k].deny = ToString(MaskValue(CategoryOverwrites[k].deny))
          /\ DOMAIN p[k] = {"id", "type", "allow", "deny"}

SyncRequested == "sync_permissions" \in DOMAIN request /\ Truthy(request.sync_permissions)

\* C27, as claimed: without a position and with a category (an actual one),
\* the edit payload carries the category's overwrite list and the category's id; with
\* sync_permissions, no category and a channel inside a category, it carries
\* that category's list.
C27_Original ==
    EditSent =>
        /\ ("category" \in DOMAIN request /\ request.category # None)
              => /\ "permission_overwrites" \in DOMAIN http[1].payload
                 /\ IsCategoryCopy(http[1].payload.permission_overwrites)
                 /\ http[1].payload.parent_id = request.category
        /\ ("category" \notin DOMAIN request /\ SyncRequested
              /\ ChannelOf(entry, self).category_id # None)
              => /\ "permission_overwrites" \in DOMAIN http[1].payload
                 /\ IsCategoryCopy(http[1].payload.permission_overwrites)

\* the copy is due: sync_permissions is requested, and a category is given or
\* the channel is inside one
CopyDue ==
    /\ SyncRequested
    /\ IF "category" \in DOMAIN request THEN request.category # None
       ELSE ChannelOf(entry, self).category_id # None

\* C27, amended: without a position, parent_id is the category given, and
\* (no overwrites option being given) permission_overwrites is in the payload
\* exactly when sync_permissions is requested and a category is given or the
\* channel is inside one; it is then that category's list.
C27_CopyOnlyOnSync ==
    EditSent =>
        /\ "category" \in DOMAIN request => http[1].payload.parent_id = request.category
        /\ "category" \notin DOMAIN request => "parent_id" \notin DOMAIN http[1].payload
        /\ "overwrites" \notin DOMAIN request
              => /\ "permission_overwrites" \in DOMAIN http[1].payload <=> CopyDue
                 /\ CopyDue => IsCategoryCopy(http[1].payload.permission_overwrites)

\* edit(category=C, sync_permissions=True)
C27_Witness ==
    /\ EditSent
    /\ "category" \in DOMAIN request
    /\ request.category = CategoryId
    /\ SyncRequested
    /\ DOMAIN http[1].payload = {"parent_id", "permission_overwrites"}
    /\ http[1].payload.parent_id = CategoryId
    /\ http[1].payload.permission_overwrites[1].deny = "1024"
    /\ http[1].payload.permission_overwrites[2].allow = "3072"

----------------------------------------------------------------------------
(* Reads before the first suspension point *)

\* the cache changed while the call was suspended
ChangedInFlight ==
    \E i \in 1..Len(entry) :
        entry[i].id # self /\ channels[i].position # entry[i].position

\* C28: the payload of a move or _move in flight, or finished, is the one a
\* computation over the channels at call start yields, whatever the cache
\* has become since; the set permissions_for returned is the one computed
\* from the overwrites at the call, which runs without a suspension.
C28_ReadsBeforeAwait ==
    /\ pc \in {"move_awaiting", "moved"} => http = move(entry, self, request).http
    /\ pc \in {"_move_awaiting", "edited"}
          => /\ Len(http) = 1
             /\ http[1].payload
                  = _move(entry, ChannelOf(entry, self), request.position, MISSING, 0).payload
    /\ pc = "resolved" => result = permissions_for(overwrites, default, member)

\* a finished _move whose payload is no longer what the cache would give
C28_Witness ==
    /\ pc = "edited"
    /\ raised = "none"
    /\ ChangedInFlight
    /\ Len(http) = 1
    /\ http[1].payload
         # _move(channels, ChannelOf(channels, self), request.position, MISSING, 0).payload
    /\ Len(http[1].payload) = 3

====
